---- MODULE Spec2Model ----
(***************************************************************************)
(* Huffman compressor / decompressor of src/huffman.cpp.                   *)
(*                                                                         *)
(* One behaviour is one compress run of the program on an input file,      *)
(* followed by one decompress run (a new process, a fresh HuffmanCoding    *)
(* object) on a file: the artifact compress wrote, or that artifact        *)
(* truncated, with its pad-count byte overwritten, or with a byte appended.*)
(* Bytes are the integers 0..255; a bit string (the std::string of '0' and *)
(* '1' characters of the code) is a sequence over {0, 1}.  Node* pointers  *)
(* are indices into the sequence heap of allocated nodes, NULL is 0.       *)
(* A file that exists can be opened and written: of the fopen failures     *)
(* only decompress's missing input file is modelled.  The verbose          *)
(* statistics read no state the codec uses and are left out.               *)
(***************************************************************************)
EXTENDS Integers, Sequences, FiniteSets

\* ------------------------------------------------------------------ bounds
\* longest input file, in bytes
MaxLen == 4
\* the byte values an input file is made of: 'a', 'b', '1', '\n' (the last two are
\* also the leaf marker and the delimiter of the artifact's framing)
Symbols == {97, 98, 49, 10}
\* pad-count values written over the artifact's pad-count byte
CorruptPads == {8, 9}
\* byte values appended after the artifact's last byte
ExtraBytes == {0, 255}
\* byte values a read through a null pointer may yield
GarbageBytes == {0, 255}

\* ------------------------------------------------------- program constants
NULL == 0
Ch0 == 48
Ch1 == 49
NL == 10

\* ------------------------------------------------------------------- state
VARIABLES
    input,        \* the bytes of compress's input file
    pc,           \* position of the program
    heap,         \* the allocated nodes; a Node* is an index into it
    pq,           \* compress: the priority queue (set of Node*)
    left, right,  \* compress: the two nodes the last merge extracted
    root,         \* HuffmanCoding::root
    huffmanCode,  \* HuffmanCoding::huffmanCode
    treeNodes, maxDepth,
    artifact,     \* the file compress writes
    dfile,        \* the file decompress reads
    extraBits,    \* decompress: the pad count read
    bitString,    \* decompress: the unpacked payload bits
    bitPos,       \* decompress: index of the next bit of the walk
    current,      \* decompress: the walk's node
    output,       \* the file decompress writes
    err           \* the message written to cerr, "none" when none

vars == <<input, pc, heap, pq, left, right, root, huffmanCode, treeNodes, maxDepth,
          artifact, dfile, extraBits, bitString, bitPos, current, output, err>>

\* ------------------------------------------------------------------- files
NoFile == [exists |-> FALSE, bytes |-> <<>>]

File(bs) == [exists |-> TRUE, bytes |-> bs]

Inputs == UNION {[1..n -> Symbols] : n \in 0..MaxLen}

Range(s) == {s[i] : i \in 1..Len(s)}

\* ------------------------------------------------------------------- nodes
Node(c, f) == [ch |-> c, freq |-> f, left |-> NULL, right |-> NULL]

IsLeaf(hp, n) == hp[n].left = NULL /\ hp[n].right = NULL

\* while (in.get(ch)) freqMap[ch]++;
FreqMap(s) == [c \in Range(s) |-> Cardinality({i \in 1..Len(s) : s[i] = c})]

\* the empty table is not rejected
FreqMapEmptyBug(fm) == FALSE

\* line 107: if (freqMap.empty())
FreqMapEmpty(fm) == DOMAIN fm = {}

\* Compare orders by freq alone: top() is some node of least freq
MinNodes(hp, q) == {n \in q : \A m \in q : hp[n].freq <= hp[m].freq}

RECURSIVE SortedSeq(_)
SortedSeq(S) ==
    IF S = {} THEN <<>>
    ELSE LET m == CHOOSE x \in S : \A y \in S : x <= y
         IN <<m>> \o SortedSeq(S \ {m})

\* for (auto& pair : freqMap) pq.push(new Node(pair.first, pair.second));
\* The iteration order of the unordered_map only decides which pointer a leaf
\* gets and the heap's layout; the layout's effect is the choice among the
\* nodes of least freq that MergeStep makes.
LeafNodes(fm) ==
    LET ks == SortedSeq(DOMAIN fm)
    IN [i \in 1..Len(ks) |-> Node(ks[i], fm[ks[i]])]

\* the merged node is not linked to its right child
MergedNodeBug(hp, l, r) ==
    [ch |-> 0, freq |-> hp[l].freq + hp[r].freq, left |-> l, right |-> NULL]

\* lines 119-121
MergedNode(hp, l, r) ==
    [ch |-> 0, freq |-> hp[l].freq + hp[r].freq, left |-> l, right |-> r]

\* ------------------------------------------------------------- buildCode
LeftPath(str) == Append(str, 0)

\* the right child is given the left child's path
RightPathBug(str) == Append(str, 0)

RightPath(str) == Append(str, 1)

\* the (symbol, code) pairs buildCode stores, in a tree without shared nodes
RECURSIVE BuildCode(_, _, _)
BuildCode(hp, node, str) ==
    IF node = NULL THEN {}
    ELSE (IF IsLeaf(hp, node) THEN {<<hp[node].ch, str>>} ELSE {})
         \cup BuildCode(hp, hp[node].left, LeftPath(str))
         \cup BuildCode(hp, hp[node].right, RightPath(str))

RECURSIVE CountNodes(_, _)
CountNodes(hp, node) ==
    IF node = NULL THEN 0
    ELSE 1 + CountNodes(hp, hp[node].left) + CountNodes(hp, hp[node].right)

Max(a, b) == IF a > b THEN a ELSE b

RECURSIVE Depth(_, _, _)
Depth(hp, node, depth) ==
    IF node = NULL THEN 0
    ELSE Max(depth, Max(Depth(hp, hp[node].left, depth + 1),
                        Depth(hp, hp[node].right, depth + 1)))

CodeMap(pairs) ==
    [c \in {p[1] : p \in pairs} |-> (CHOOSE p \in pairs : p[1] = c)[2]]

\* ------------------------------------------------------------- writeTree
RECURSIVE WriteTree(_, _)
WriteTree(hp, node) ==
    IF node = NULL THEN <<>>
    ELSE IF IsLeaf(hp, node) THEN <<Ch1, hp[node].ch>>
    ELSE <<Ch0>> \o WriteTree(hp, hp[node].left) \o WriteTree(hp, hp[node].right)

\* ------------------------------------------------------------ bit packing
\* huffmanCode[ch]: operator[] of the unordered_map yields "" for a missing key
CodeOf(codes, c) == IF c \in DOMAIN codes THEN codes[c] ELSE <<>>

\* line 138: while (in.get(ch)) encoded += huffmanCode[ch];
RECURSIVE Encode(_, _)
Encode(s, codes) ==
    IF s = <<>> THEN <<>> ELSE CodeOf(codes, Head(s)) \o Encode(Tail(s), codes)

ExtraBitsOf(n) == (8 - (n % 8)) % 8

Zeros(n) == [i \in 1..n |-> 0]

\* bitset<8>(byteStr).to_ulong(): the first character is the most significant
BitsToByte(b) ==
    b[1] * 128 + b[2] * 64 + b[3] * 32 + b[4] * 16 + b[5] * 8 + b[6] * 4 + b[7] * 2 + b[8]

\* bitset<8>(byte).to_string()
ByteToBits(b) ==
    <<(b \div 128) % 2, (b \div 64) % 2, (b \div 32) % 2, (b \div 16) % 2,
      (b \div 8) % 2, (b \div 4) % 2, (b \div 2) % 2, b % 2>>

PackBits(bits) ==
    [k \in 1..(Len(bits) \div 8) |-> BitsToByte(SubSeq(bits, 8 * (k - 1) + 1, 8 * k))]

RECURSIVE UnpackBytes(_)
UnpackBytes(bs) ==
    IF bs = <<>> THEN <<>> ELSE ByteToBits(Head(bs)) \o UnpackBytes(Tail(bs))

\* ---------------------------------------------------------------- readTree
\* The ifstream is (bs, pos, fail): pos bytes are consumed, and a get() with
\* nothing left or on a failed stream fails and leaves the stream failed.
CanGet(bs, pos, fail) == ~fail /\ pos < Len(bs)

\* The result is [node, pos, fail, heap]
RECURSIVE ReadTree(_, _, _, _)
ReadTree(bs, pos, fail, hp) ==
    IF ~CanGet(bs, pos, fail)
    THEN [node |-> NULL, pos |-> pos, fail |-> TRUE, heap |-> hp]
    ELSE IF bs[pos + 1] = Ch1
    THEN IF ~CanGet(bs, pos + 1, fail)
         THEN [node |-> NULL, pos |-> pos + 1, fail |-> TRUE, heap |-> hp]
         ELSE [node |-> Len(hp) + 1, pos |-> pos + 2, fail |-> FALSE,
               heap |-> Append(hp, Node(bs[pos + 2], 0))]
    ELSE LET id == Len(hp) + 1
             l == ReadTree(bs, pos + 1, fail, Append(hp, Node(0, 0)))
             r == ReadTree(bs, l.pos, l.fail, l.heap)
         IN [node |-> id, pos |-> r.pos, fail |-> r.fail,
             heap |-> [r.heap EXCEPT ![id].left = l.node, ![id].right = r.node]]

\* line 174-175: decompress gives up when readTree returned no root
TreeReadFailed(t) == t.node = NULL

\* lines 180-181: char next = in.peek(); if (next == '\n') in.get();
AfterNewline(bs, pos, fail) ==
    IF CanGet(bs, pos, fail) /\ bs[pos + 1] = NL THEN pos + 1 ELSE pos

\* line 183: int extraBits = in.get(); EOF is -1
PadByte(bs, pos, fail) == IF CanGet(bs, pos, fail) THEN bs[pos + 1] ELSE -1

\* the pad count is read and never checked
PadReadFailedBug(bs, pos, fail) == FALSE

\* line 184: if (in.eof() || in.fail())
PadReadFailed(bs, pos, fail) == ~CanGet(bs, pos, fail)

\* lines 191-194: the bytes after the pad count
Payload(bs, pos) == SubSeq(bs, pos + 2, Len(bs))

\* lines 195-196
DropPadding(bits, extra) ==
    IF extra > 0 /\ extra <= 8 /\ Len(bits) >= extra
    THEN SubSeq(bits, 1, Len(bits) - extra)
    ELSE bits

\* lines 206-207
Child(hp, node, bit) == IF bit = 0 THEN hp[node].left ELSE hp[node].right

\* ------------------------------------------------ the files decompress reads
Truncations(a) == {SubSeq(a, 1, k) : k \in 0..(Len(a) - 1)}

WithPad(a, padAt, p) == [a EXCEPT ![padAt] = p]

DecompressFiles(a, padAt) ==
    {a} \cup Truncations(a)
        \cup {WithPad(a, padAt, p) : p \in CorruptPads}
        \cup {Append(a, b) : b \in ExtraBytes}

\* ---------------------------------------------------------------- compress
Init ==
    /\ input \in Inputs
    /\ pc = "c_start"
    /\ heap = <<>>
    /\ pq = {}
    /\ left = NULL
    /\ right = NULL
    /\ root = NULL
    /\ huffmanCode = [c \in {} |-> <<>>]
    /\ treeNodes = 0
    /\ maxDepth = 0
    /\ artifact = NoFile
    /\ dfile = NoFile
    /\ extraBits = 0
    /\ bitString = <<>>
    /\ bitPos = 1
    /\ current = NULL
    /\ output = NoFile
    /\ err = "none"

\* compress, lines 97-114: count the bytes, reject an empty table, fill the queue
CompressRead ==
    /\ pc = "c_start"
    /\ LET fm == FreqMap(input)
       IN IF FreqMapEmpty(fm)
          THEN /\ err' = "EmptyInput"
               /\ pc' = "c_err"
               /\ UNCHANGED <<heap, pq>>
          ELSE /\ heap' = LeafNodes(fm)
               /\ pq' = DOMAIN LeafNodes(fm)
               /\ pc' = "c_merge"
               /\ err' = err
    /\ UNCHANGED <<input, left, right, root, huffmanCode, treeNodes, maxDepth, artifact,
                   dfile, extraBits, bitString, bitPos, current, output>>

\* compress, lines 116-123: one iteration of the merge loop
MergeStep ==
    /\ pc = "c_merge"
    /\ Cardinality(pq) > 1
    /\ \E l \in MinNodes(heap, pq) :
         \E r \in MinNodes(heap, pq \ {l}) :
            /\ left' = l
            /\ right' = r
            /\ heap' = Append(heap, MergedNode(heap, l, r))
            /\ pq' = (pq \ {l, r}) \cup {Len(heap) + 1}
    /\ UNCHANGED <<input, pc, root, huffmanCode, treeNodes, maxDepth, artifact,
                   dfile, extraBits, bitString, bitPos, current, output, err>>

\* compress, lines 125-126: root = pq.top(); buildCode(root, "")
BuildCodes ==
    /\ pc = "c_merge"
    /\ Cardinality(pq) = 1
    /\ LET top == CHOOSE n \in pq : TRUE
       IN /\ root' = top
          /\ huffmanCode' = CodeMap(BuildCode(heap, top, <<>>))
          /\ treeNodes' = treeNodes + CountNodes(heap, top)
          /\ maxDepth' = Max(maxDepth, Depth(heap, top, 0))
    /\ pc' = "c_write"
    /\ UNCHANGED <<input, heap, pq, left, right, artifact,
                   dfile, extraBits, bitString, bitPos, current, output, err>>

\* compress, lines 128-150: the tree, '\n', the pad count, the packed payload
WriteArtifact ==
    /\ pc = "c_write"
    /\ LET encoded == Encode(input, huffmanCode)
           extra == ExtraBitsOf(Len(encoded))
           padded == encoded \o Zeros(extra)
       IN artifact' = File(WriteTree(heap, root) \o <<NL>> \o <<extra>> \o PackBits(padded))
    /\ pc' = "c_done"
    /\ UNCHANGED <<input, heap, pq, left, right, root, huffmanCode, treeNodes, maxDepth,
                   dfile, extraBits, bitString, bitPos, current, output, err>>

\* a new run of the program: main's HuffmanCoding h is a fresh object
FreshLocals ==
    /\ pq' = {}
    /\ left' = NULL
    /\ right' = NULL
    /\ huffmanCode' = [c \in {} |-> <<>>]
    /\ treeNodes' = 0
    /\ maxDepth' = 0

FreshObject ==
    /\ FreshLocals
    /\ heap' = <<>>
    /\ root' = NULL

\* decompress, lines 169-173, on a file that does not exist
DecompressNoFile ==
    /\ pc = "c_err"
    /\ ~artifact.exists
    /\ FreshObject
    /\ dfile' = artifact
    /\ err' = "CannotOpenInput"
    /\ pc' = "d_err"
    /\ UNCHANGED <<input, artifact, extraBits, bitString, bitPos, current, output>>

\* decompress, lines 169-204: read the tree, the pad count and the payload
DecompressRead ==
    /\ pc = "c_done"
    /\ \E bs \in DecompressFiles(artifact.bytes, Len(WriteTree(heap, root)) + 2) :
         LET t == ReadTree(bs, 0, FALSE, <<>>)
             p == AfterNewline(bs, t.pos, t.fail)
             extra == PadByte(bs, p, t.fail)
         IN /\ dfile' = File(bs)
            /\ FreshLocals
            /\ heap' = t.heap
            /\ root' = t.node
            /\ IF TreeReadFailed(t)
               THEN /\ err' = "TreeReadFailed"
                    /\ pc' = "d_err"
                    /\ UNCHANGED <<extraBits, bitString, bitPos, current, output>>
               ELSE IF PadReadFailed(bs, p, t.fail)
               THEN /\ err' = "UnexpectedEof"
                    /\ pc' = "d_err"
                    /\ extraBits' = extra
                    /\ UNCHANGED <<bitString, bitPos, current, output>>
               ELSE /\ extraBits' = extra
                    /\ bitString' = DropPadding(UnpackBytes(Payload(bs, p)), extra)
                    /\ bitPos' = 1
                    /\ current' = t.node
                    /\ output' = File(<<>>)
                    /\ err' = "none"
                    /\ pc' = "d_walk"
    /\ UNCHANGED <<input, artifact>>

\* decompress, lines 205-213: one iteration of the walk.  Reading a field of
\* the node behind a null pointer is undefined: the run is killed, or the read
\* yields garbage that is taken for a leaf (some byte is written) or is not.
WalkStep ==
    /\ pc = "d_walk"
    /\ bitPos <= Len(bitString)
    /\ LET nxt == IF current = NULL THEN NULL
                  ELSE Child(heap, current, bitString[bitPos])
       IN IF nxt = NULL
          THEN \/ /\ pc' = "d_crash"
                  /\ current' = NULL
                  /\ UNCHANGED <<bitPos, output>>
               \/ /\ \E g \in GarbageBytes : output' = File(Append(output.bytes, g))
                  /\ current' = root
                  /\ bitPos' = bitPos + 1
                  /\ pc' = pc
               \/ /\ current' = NULL
                  /\ bitPos' = bitPos + 1
                  /\ UNCHANGED <<pc, output>>
          ELSE /\ IF IsLeaf(heap, nxt)
                  THEN /\ output' = File(Append(output.bytes, heap[nxt].ch))
                       /\ current' = root
                  ELSE /\ output' = output
                       /\ current' = nxt
               /\ bitPos' = bitPos + 1
               /\ pc' = pc
    /\ UNCHANGED <<input, heap, pq, left, right, root, huffmanCode, treeNodes, maxDepth,
                   artifact, dfile, extraBits, bitString, err>>

\* decompress, lines 215-216: the walk is over, the files are closed
DecompressClose ==
    /\ pc = "d_walk"
    /\ bitPos > Len(bitString)
    /\ pc' = "d_done"
    /\ UNCHANGED <<input, heap, pq, left, right, root, huffmanCode, treeNodes, maxDepth,
                   artifact, dfile, extraBits, bitString, bitPos, current, output, err>>

Next ==
    \/ CompressRead
    \/ MergeStep
    \/ BuildCodes
    \/ WriteArtifact
    \/ DecompressNoFile
    \/ DecompressRead
    \/ WalkStep
    \/ DecompressClose

Spec == Init /\ [][Next]_vars

\* ------------------------------------------------- vocabulary of the properties
IsPrefix(s, t) == Len(s) <= Len(t) /\ SubSeq(t, 1, Len(s)) = s

\* the number of bytes of bs a serialized tree starting after pos bytes ends
\* at, -1 when the bytes run out before the tree is complete
RECURSIVE TreeEnd(_, _)
TreeEnd(bs, pos) ==
    IF pos < 0 \/ pos >= Len(bs) THEN -1
    ELSE IF bs[pos + 1] = Ch1 THEN (IF pos + 1 >= Len(bs) THEN -1 ELSE pos + 2)
    ELSE TreeEnd(bs, TreeEnd(bs, pos + 1))

\* the number of payload bytes of a file whose tree is complete
NumPayload(bs) ==
    LET t == TreeEnd(bs, 0)
        p == IF t < Len(bs) /\ bs[t + 1] = NL THEN t + 1 ELSE t
    IN IF Len(bs) > p + 1 THEN Len(bs) - (p + 1) ELSE 0

RECURSIVE TreeNodesOf(_, _)
TreeNodesOf(hp, n) ==
    IF n = NULL THEN {}
    ELSE {n} \cup TreeNodesOf(hp, hp[n].left) \cup TreeNodesOf(hp, hp[n].right)

Compressed == pc \in {"c_write", "c_done"}

\* decompress ran on the very file compress wrote
Untampered == dfile.exists /\ artifact.exists /\ dfile = artifact

\* decompress ran on the artifact without its last payload byte
PayloadTruncated ==
    /\ dfile.exists
    /\ artifact.exists
    /\ NumPayload(artifact.bytes) >= 1
    /\ dfile.bytes = SubSeq(artifact.bytes, 1, Len(artifact.bytes) - 1)

\* the tie-break rule: among nodes of equal weight, a may be taken before b
Preferred(hp, a, b) ==
    IF IsLeaf(hp, a) /\ IsLeaf(hp, b) THEN hp[a].ch < hp[b].ch
    ELSE IF ~IsLeaf(hp, a) /\ ~IsLeaf(hp, b) THEN a < b
    ELSE TRUE

\* the next bit of the walk leads to a child that does not exist
MissingChildAhead ==
    /\ pc = "d_walk"
    /\ bitPos <= Len(bitString)
    /\ (current = NULL \/ Child(heap, current, bitString[bitPos]) = NULL)

\* ------------------------------------------------------------------ claims
\* C1: round trip: decompress of the artifact compress wrote for a non-empty
\* input, once complete, has written exactly the input bytes.
C1_RoundTrip ==
    (pc = "d_done" /\ Untampered) => output = File(input)

\* C1, the inputs the code does round-trip: two or more distinct byte values.
C1_RoundTripTwoOrMore ==
    (pc = "d_done" /\ Untampered /\ Cardinality(Range(input)) >= 2) => output = File(input)

\* C2: an input of n >= 1 copies of one byte b gets b a code of exactly one
\* bit, and decompress of the artifact recovers the n copies of b.
C2_SingleByteOneBit ==
    Cardinality(Range(input)) = 1 =>
        /\ Compressed => \A b \in Range(input) : Len(CodeOf(huffmanCode, b)) = 1
        /\ (pc = "d_done" /\ Untampered) => output = File(input)

\* C3: decompress of an artifact whose last payload byte was removed never
\* completes normally.
C3_TruncatedPayloadSignalled ==
    PayloadTruncated => pc # "d_done"

\* C4: compress of an empty input ends in the empty-input error before any
\* node is allocated, and writes no artifact.
C4_EmptyInputRejected ==
    input = <<>> =>
        /\ pc \in {"c_start", "c_err", "d_err"}
        /\ pc = "c_err" => err = "EmptyInput"
        /\ heap = <<>> /\ pq = {} /\ root = NULL
        /\ ~artifact.exists

C4_Witness == input = <<>> /\ pc = "c_err" /\ err = "EmptyInput"

\* C5: in every merge the two nodes extracted are the ones the tie-break rule
\* fixes: among the nodes of equal weight, the leaf of the smaller byte value,
\* the internal node created earlier.
C5_TieBreakFixed ==
    (pc = "c_merge" /\ left # NULL) =>
        LET rest == pq \ {Len(heap)}
        IN /\ \A m \in rest \cup {right} :
                heap[m].freq = heap[left].freq => Preferred(heap, left, m)
           /\ \A m \in rest :
                heap[m].freq = heap[right].freq => Preferred(heap, right, m)

\* C6: after buildCode every byte value of the input has exactly one code, and
\* no code of one byte value is a prefix of, or equal to, the code of another.
C6_PrefixFree ==
    Compressed =>
        LET pairs == BuildCode(heap, root, <<>>)
        IN /\ {q[1] : q \in pairs} = Range(input)
           /\ Cardinality(pairs) = Cardinality(Range(input))
           /\ DOMAIN huffmanCode = Range(input)
           /\ \A q \in pairs : huffmanCode[q[1]] = q[2]
           /\ \A a, b \in Range(input) :
                a # b => ~IsPrefix(huffmanCode[a], huffmanCode[b])

C6_Witness ==
    /\ pc = "c_done"
    /\ Cardinality(Range(input)) >= 3
    /\ \E a, b \in Range(input) : Len(huffmanCode[a]) < Len(huffmanCode[b])

\* C7: with n >= 2 distinct byte values every merge replaces two queued nodes
\* by one, and the loop ends with one tree of n leaves, one per byte value,
\* and n-1 internal nodes of two children each: 2n-1 nodes, at most 511.
C7_TreeSizeBound ==
    LET n == Cardinality(Range(input))
    IN n >= 2 =>
        /\ pc = "c_merge" =>
              /\ Cardinality(pq) >= 1
              /\ Len(heap) - n = n - Cardinality(pq)
        /\ Compressed =>
              LET T == TreeNodesOf(heap, root)
                  leaves == {x \in T : IsLeaf(heap, x)}
                  inner == T \ leaves
              IN /\ pq = {root}
                 /\ T = 1..Len(heap)
                 /\ Cardinality(leaves) = n
                 /\ {heap[x].ch : x \in leaves} = Range(input)
                 /\ Cardinality(inner) = n - 1
                 /\ \A x \in inner : heap[x].left # NULL /\ heap[x].right # NULL
                 /\ treeNodes = 2 * n - 1
                 /\ treeNodes <= 511

C7_Witness ==
    /\ pc = "c_write"
    /\ Cardinality(Range(input)) = Cardinality(Symbols)
    /\ treeNodes = 2 * Cardinality(Symbols) - 1

\* C8: a payload bit that leads the walk to a child that does not exist ends
\* decompress in an error; the missing child is never followed.
C8_MissingChildSignalled ==
    [][MissingChildAhead => pc' = "d_err"]_vars

\* C9: a pad count above 7, or above the number of bits unpacked from the
\* payload, ends decompress in an error: the walk is never started with it.
C9_CorruptPaddingSignalled ==
    pc \in {"d_walk", "d_done", "d_crash"} =>
        /\ extraBits <= 7
        /\ extraBits <= 8 * NumPayload(dfile.bytes)

\* C10: a file whose bytes run out before the serialized tree is complete ends
\* decompress in an error: no output file is written and no walk is started.
C10_TruncatedTreeRejected ==
    (dfile.exists /\ TreeEnd(dfile.bytes, 0) = -1) =>
        /\ pc = "d_err"
        /\ err \in {"TreeReadFailed", "UnexpectedEof"}
        /\ ~output.exists
        /\ bitString = <<>>
        /\ current = NULL

\* the bytes ran out below the root: readTree returned a partly built tree
C10_Witness ==
    /\ dfile.exists
    /\ TreeEnd(dfile.bytes, 0) = -1
    /\ root # NULL
    /\ \E x \in 1..Len(heap) : heap[x].left # NULL /\ heap[x].right = NULL
    /\ pc = "d_err"
====
